---- MODULE Spec2Model ----
(***************************************************************************)
(* Model of the two example scripts of the repository:                     *)
(*   scripts/web-search-chat-completion.py   (script "chat")               *)
(*   scripts/web-search-response.py          (script "resp")               *)
(* Each run of a script loads the credential, builds the client, issues    *)
(* one blocking create() call and prints a result.  The remote service is  *)
(* a stub that answers with any payload or raises any error of a bounded   *)
(* set.  Successive runs are separate processes.                           *)
(***************************************************************************)
EXTENDS Integers, Sequences, FiniteSets, TLC

\* ----------------------------------------------------------------- bounds
MaxRuns == 2        \* processes started one after the other
MaxChoices == 2     \* choices in a chat completion payload
MaxItems == 2       \* output items in a responses payload

\* ------------------------------------------------------- Python values
\* A Python value is a record [k, s, l]: k the kind, s the text of a str,
\* l the elements of a list or the (key, value) attributes of an object,
\* in attribute (insertion) order.
PyNone == [k |-> "none", s |-> "", l |-> <<>>]
PyStr(x) == [k |-> "str", s |-> x, l |-> <<>>]
PyList(xs) == [k |-> "list", s |-> "", l |-> xs]
PyObj(fields) == [k |-> "obj", s |-> "", l |-> fields]
Attr(key, val) == [key |-> key, val |-> val]

\* o.name
GetAttr(o, name) ==
  LET i == CHOOSE j \in DOMAIN o.l : o.l[j].key = name IN o.l[i].val

SeqsUpTo(S, n) == UNION {[1..m -> S] : m \in 0..n}

\* ------------------------------------------------- payloads of the stub
UrlCitation ==
  PyObj(<<Attr("type", PyStr("url_citation")),
          Attr("url", PyStr("https://example.org/oil"))>>)

AnnotationLists == {<<>>, <<UrlCitation>>}

\* completion.choices[i].message
ChatMessage(content, annotations) ==
  PyObj(<<Attr("content", content),
          Attr("role", PyStr("assistant")),
          Attr("annotations", PyList(annotations))>>)

ChatChoice(message) ==
  PyObj(<<Attr("finish_reason", PyStr("stop")),
          Attr("message", message)>>)

ChatContents == {PyStr("Brent trades near 80 USD"), PyNone}

ChatChoices ==
  {ChatChoice(ChatMessage(c, a)) : c \in ChatContents, a \in AnnotationLists}

ChatCompletion(choices) ==
  PyObj(<<Attr("id", PyStr("chatcmpl-1")),
          Attr("choices", PyList(choices)),
          Attr("model", PyStr("gpt-4.1"))>>)

ChatPayloads == {ChatCompletion(cs) : cs \in SeqsUpTo(ChatChoices, MaxChoices)}

\* response.output[i]: a tool-invocation record or a message
WebSearchCall(status) ==
  PyObj(<<Attr("id", PyStr("ws_1")),
          Attr("status", status),
          Attr("type", PyStr("web_search_call"))>>)

OutputText(annotations) ==
  PyObj(<<Attr("annotations", PyList(annotations)),
          Attr("text", PyStr("A positive story")),
          Attr("type", PyStr("output_text"))>>)

OutputMessage(annotations) ==
  PyObj(<<Attr("id", PyStr("msg_1")),
          Attr("content", PyList(<<OutputText(annotations)>>)),
          Attr("role", PyStr("assistant")),
          Attr("type", PyStr("message"))>>)

OutputItems ==
  {WebSearchCall(PyStr("completed")), WebSearchCall(PyNone)}
    \cup {OutputMessage(a) : a \in AnnotationLists}

Response(items) ==
  PyObj(<<Attr("id", PyStr("resp_1")),
          Attr("output", PyList(items)),
          Attr("status", PyStr("completed"))>>)

RespPayloads == {Response(is) : is \in SeqsUpTo(OutputItems, MaxItems)}

\* every str that occurs in a payload, as attribute name or as value
PayloadStrings ==
  {"type", "url_citation", "url", "https://example.org/oil", "content",
   "role", "assistant", "annotations", "finish_reason", "stop", "message",
   "Brent trades near 80 USD", "id", "chatcmpl-1", "choices", "model",
   "gpt-4.1", "ws_1", "status", "completed", "web_search_call", "text",
   "A positive story", "output_text", "msg_1", "output", "resp_1"}

\* ------------------------------------------------ json.dumps(..., indent=2)
\* The text written is modelled as a sequence of tokens.
Quote(s) == "\"" \o s \o "\""

\* newline followed by the indentation of nesting level n (indent=2)
RECURSIVE Indent(_)
Indent(n) == IF n = 0 THEN "\n" ELSE Indent(n - 1) \o "  "

\* a serialiser that leaves out the attributes whose value is None
DefaultDictExcludeNone(o) == SelectSeq(o.l, LAMBDA f : f.val.k # "none")

\* default=lambda o: o.__dict__ : an object that json cannot serialise is
\* replaced by the dict of its instance attributes
DefaultDict(o) == o.l

RECURSIVE Dumps(_, _), DumpsElems(_, _), DumpsMembers(_, _)
DumpsElems(xs, level) ==
  IF Len(xs) = 0 THEN <<>>
  ELSE <<Indent(level)>> \o Dumps(Head(xs), level)
         \o (IF Len(xs) > 1 THEN <<",">> ELSE <<>>)
         \o DumpsElems(Tail(xs), level)

DumpsMembers(fs, level) ==
  IF Len(fs) = 0 THEN <<>>
  ELSE <<Indent(level), Quote(Head(fs).key), ": ">>
         \o Dumps(Head(fs).val, level)
         \o (IF Len(fs) > 1 THEN <<",">> ELSE <<>>)
         \o DumpsMembers(Tail(fs), level)

Dumps(v, level) ==
  CASE v.k = "none" -> <<"null">>
    [] v.k = "str" -> <<Quote(v.s)>>
    [] v.k = "list" ->
         IF Len(v.l) = 0 THEN <<"[]">>
         ELSE <<"[">> \o DumpsElems(v.l, level + 1) \o <<Indent(level), "]">>
    [] v.k = "obj" ->
         IF Len(DefaultDict(v)) = 0 THEN <<"{}">>
         ELSE <<"{">> \o DumpsMembers(DefaultDict(v), level + 1)
                \o <<Indent(level), "}">>

\* json.loads, used to state what a rendering still contains: a JSON object
\* is read back as the attribute list it was written from
IsWhitespace(t) == \E n \in 0..8 : t = Indent(n)

Unquote(t) ==
  IF \E s \in PayloadStrings : Quote(s) = t
  THEN CHOOSE s \in PayloadStrings : Quote(s) = t
  ELSE "?"

RECURSIVE SkipWs(_)
SkipWs(ts) ==
  IF Len(ts) > 0 /\ IsWhitespace(Head(ts)) THEN SkipWs(Tail(ts)) ELSE ts

RECURSIVE ParseValue(_), ParseElems(_, _), ParseMembers(_, _)
ParseValue(ts) ==
  LET t == Head(ts) IN
  CASE t = "null" -> [v |-> PyNone, rest |-> Tail(ts)]
    [] t = "[]" -> [v |-> PyList(<<>>), rest |-> Tail(ts)]
    [] t = "{}" -> [v |-> PyObj(<<>>), rest |-> Tail(ts)]
    [] t = "[" -> ParseElems(Tail(ts), <<>>)
    [] t = "{" -> ParseMembers(Tail(ts), <<>>)
    [] OTHER -> [v |-> PyStr(Unquote(t)), rest |-> Tail(ts)]

ParseElems(ts, acc) ==
  LET us == SkipWs(ts) IN
  IF Len(us) = 0 THEN [v |-> PyList(acc), rest |-> <<>>]
  ELSE IF Head(us) = "]" THEN [v |-> PyList(acc), rest |-> Tail(us)]
  ELSE IF Head(us) = "," THEN ParseElems(Tail(us), acc)
  ELSE LET r == ParseValue(us) IN ParseElems(r.rest, Append(acc, r.v))

ParseMembers(ts, acc) ==
  LET us == SkipWs(ts) IN
  IF Len(us) = 0 THEN [v |-> PyObj(acc), rest |-> <<>>]
  ELSE IF Head(us) = "}" THEN [v |-> PyObj(acc), rest |-> Tail(us)]
  ELSE IF Len(us) < 3 THEN [v |-> PyObj(acc), rest |-> <<>>]
  ELSE IF Head(us) = "," THEN ParseMembers(Tail(us), acc)
  ELSE LET r == ParseValue(Tail(Tail(us)))
       IN ParseMembers(r.rest, Append(acc, Attr(Unquote(Head(us)), r.v)))

Loads(ts) == ParseValue(SkipWs(ts)).v

\* str(x), as print applies it to its argument
PyToStr(v) == IF v.k = "none" THEN "None" ELSE v.s

\* ------------------------------------------------------------- requests
Scripts == {"chat", "resp"}

ChatPrompt ==
  "what is the current price of crude oil today? Also, please find me forecast for the next 30 days for crude oil price and sources"

RespPrompt == "What was a positive news story from today?"

NoRequest ==
  [endpoint |-> "", kwargs |-> {}, model |-> "", messages |-> <<>>,
   input |-> "", tools |-> <<>>]

\* a request built without its tool capability
BuildRequestNoTools(s) ==
  IF s = "chat"
  THEN [endpoint |-> "chat.completions",
        kwargs |-> {"model", "messages"},
        model |-> "gpt-4.1",
        messages |-> <<[role |-> "user", content |-> ChatPrompt]>>,
        input |-> "",
        tools |-> <<>>]
  ELSE [endpoint |-> "responses",
        kwargs |-> {"model", "input"},
        model |-> "gpt-4.1-mini",
        messages |-> <<>>,
        input |-> RespPrompt,
        tools |-> <<>>]

\* the keyword arguments of the create() call of script s
BuildRequest(s) ==
  IF s = "chat"
  THEN [endpoint |-> "chat.completions",
        kwargs |-> {"model", "web_search_options", "messages"},
        model |-> "gpt-4.1",
        messages |-> <<[role |-> "user", content |-> ChatPrompt]>>,
        input |-> "",
        tools |-> <<>>]
  ELSE [endpoint |-> "responses",
        kwargs |-> {"model", "input", "tools"},
        model |-> "gpt-4.1-mini",
        messages |-> <<>>,
        input |-> RespPrompt,
        tools |-> <<[type |-> "web_search"]>>]

\* ------------------------------------------------------ the remote stub
Models == {"gpt-4.1", "gpt-4.1-mini"}
Keys == {"unset", "valid", "invalid"}

NoReply == [kind |-> "none", val |-> PyNone, err |-> ""]
Payload(v) == [kind |-> "payload", val |-> v, err |-> ""]
Error(e) == [kind |-> "error", val |-> PyNone, err |-> e]

\* what the remote service may answer to request req made with api key key,
\* when it recognises the models of rec
RemoteOutcomes(req, key, rec) ==
  {Error(e) : e \in {"APIConnectionError", "RateLimitError", "BadRequestError"}}
    \cup (IF key # "valid" THEN {Error("AuthenticationError")} ELSE {})
    \cup (IF req.model \notin rec THEN {Error("NotFoundError")} ELSE {})
    \cup (IF key = "valid" /\ req.model \in rec
          THEN {Payload(v) : v \in (IF req.endpoint = "chat.completions"
                                    THEN ChatPayloads ELSE RespPayloads)}
          ELSE {})

\* ---------------------------------------------------------------- state
VARIABLES
  osenv,       \* OPENAI_API_KEY in the environment the process inherits
  dotenv,      \* OPENAI_API_KEY in the .env file
  recognised,  \* the model identifiers the remote service recognises
  run,         \* number of the current process
  script,      \* the script the current process runs
  pc,          \* position of the current process
  environ,     \* os.environ["OPENAI_API_KEY"] of the current process
  loads,       \* calls of load_dotenv() made by the current process
  client,      \* api key held by the client, "none" before OpenAI()
  request,     \* the request of the create() call
  sent,        \* requests the current process has issued
  inflight,    \* the reply of the remote service to the pending call
  completion,  \* variable completion of the chat script
  response,    \* variable response of the responses script
  exc,         \* the uncaught exception, "" when there is none
  failedAt,    \* the step that raised it
  exitcode,    \* exit status of the process, -1 while it runs
  shown,       \* the value selected for display
  stdout,      \* the texts written to standard output
  calls,       \* the requests the remote service has received, all runs
  past         \* outcomes of the runs that ended before this one

env == <<osenv, dotenv, recognised>>
vars == <<osenv, dotenv, recognised, run, script, pc, environ, loads, client,
          request, sent, inflight, completion, response, exc, failedAt,
          exitcode, shown, stdout, calls, past>>

\* the state of a process that has just been started
Fresh ==
  /\ pc = "start"
  /\ environ = osenv
  /\ loads = 0
  /\ client = "none"
  /\ request = NoRequest
  /\ sent = 0
  /\ inflight = NoReply
  /\ completion = PyNone
  /\ response = PyNone
  /\ exc = ""
  /\ failedAt = ""
  /\ exitcode = -1
  /\ shown = PyNone
  /\ stdout = <<>>

Init ==
  /\ osenv \in Keys
  /\ dotenv \in Keys
  /\ recognised \in SUBSET Models
  /\ run = 1
  /\ script \in Scripts
  /\ calls = <<>>
  /\ past = <<>>
  /\ Fresh

\* a handler that swallows the exception and lets the process end normally
UncaughtExitZero(e, step) ==
  /\ pc' = "failed"
  /\ exc' = e
  /\ failedAt' = step
  /\ exitcode' = 0

\* an exception nobody catches ends the process: traceback, exit status 1
Uncaught(e, step) ==
  /\ pc' = "failed"
  /\ exc' = e
  /\ failedAt' = step
  /\ exitcode' = 1

\* load_dotenv(): override=False, a variable already set is kept
LoadDotenv ==
  /\ pc = "start"
  /\ environ' = IF environ = "unset" THEN dotenv ELSE environ
  /\ loads' = loads + 1
  /\ pc' = "loaded"
  /\ UNCHANGED <<env, run, script, client, request, sent, inflight,
                 completion, response, exc, failedAt, exitcode, shown,
                 stdout, calls, past>>

\* a client built before load_dotenv() has run
ConstructClientEarly ==
  /\ pc \in {"start", "loaded"}
  /\ IF environ = "unset"
     THEN /\ Uncaught("OpenAIError", "client")
          /\ UNCHANGED client
     ELSE /\ client' = environ
          /\ pc' = "ready"
          /\ UNCHANGED <<exc, failedAt, exitcode>>
  /\ UNCHANGED <<env, run, script, environ, loads, request, sent, inflight,
                 completion, response, shown, stdout, calls, past>>

\* client = OpenAI(): reads the key from os.environ, raises without one
ConstructClient ==
  /\ pc = "loaded"
  /\ IF environ = "unset"
     THEN /\ Uncaught("OpenAIError", "client")
          /\ UNCHANGED client
     ELSE /\ client' = environ
          /\ pc' = "ready"
          /\ UNCHANGED <<exc, failedAt, exitcode>>
  /\ UNCHANGED <<env, run, script, environ, loads, request, sent, inflight,
                 completion, response, shown, stdout, calls, past>>

\* a call that keeps the prompts of the earlier calls as conversation history
CreateWithHistory ==
  /\ pc = "ready"
  /\ request' =
       [BuildRequest(script) EXCEPT
          !.messages =
            [i \in DOMAIN calls |->
               [role |-> "user",
                content |-> IF calls[i].script = "chat"
                            THEN ChatPrompt ELSE RespPrompt]] \o @]
  /\ sent' = sent + 1
  /\ calls' = Append(calls, [script |-> script, request |-> request'])
  /\ pc' = "awaiting"
  /\ UNCHANGED <<env, run, script, environ, loads, client, inflight,
                 completion, response, exc, failedAt, exitcode, shown,
                 stdout, past>>

\* a call that checks the model identifier against a local list first
CreateValidated ==
  /\ pc = "ready"
  /\ IF BuildRequest(script).model \in recognised
     THEN /\ request' = BuildRequest(script)
          /\ sent' = sent + 1
          /\ calls' = Append(calls, [script |-> script, request |-> request'])
          /\ pc' = "awaiting"
          /\ UNCHANGED <<exc, failedAt, exitcode>>
     ELSE /\ Uncaught("NotFoundError", "validate")
          /\ UNCHANGED <<request, sent, calls>>
  /\ UNCHANGED <<env, run, script, environ, loads, client, inflight,
                 completion, response, shown, stdout, past>>

\* client.chat.completions.create(...) / client.responses.create(...):
\* the request leaves, the caller blocks
Create ==
  /\ pc = "ready"
  /\ request' = BuildRequest(script)
  /\ sent' = sent + 1
  /\ calls' = Append(calls, [script |-> script, request |-> request'])
  /\ pc' = "awaiting"
  /\ UNCHANGED <<env, run, script, environ, loads, client, inflight,
                 completion, response, exc, failedAt, exitcode, shown,
                 stdout, past>>

\* the remote service answers the pending request
RemoteReplies ==
  /\ pc = "awaiting"
  /\ inflight.kind = "none"
  /\ \E o \in RemoteOutcomes(request, client, recognised) : inflight' = o
  /\ UNCHANGED <<env, run, script, pc, environ, loads, client, request, sent,
                 completion, response, exc, failedAt, exitcode, shown,
                 stdout, calls, past>>

\* create() returns: the payload is bound to completion / response
CreateReturns ==
  /\ pc = "awaiting"
  /\ inflight.kind = "payload"
  /\ IF script = "chat"
     THEN completion' = inflight.val /\ UNCHANGED response
     ELSE response' = inflight.val /\ UNCHANGED completion
  /\ pc' = "received"
  /\ UNCHANGED <<env, run, script, environ, loads, client, request, sent,
                 inflight, exc, failedAt, exitcode, shown, stdout, calls,
                 past>>

\* a handler that wraps the error of the remote call in another one
CreateRaisesTranslated ==
  /\ pc = "awaiting"
  /\ inflight.kind = "error"
  /\ Uncaught("RuntimeError", "call")
  /\ UNCHANGED <<env, run, script, environ, loads, client, request, sent,
                 inflight, completion, response, shown, stdout, calls, past>>

\* a handler that sends the request again after an error
CreateRaisesRetry ==
  /\ pc = "awaiting"
  /\ inflight.kind = "error"
  /\ IF sent < 2
     THEN /\ pc' = "ready"
          /\ inflight' = NoReply
          /\ UNCHANGED <<exc, failedAt, exitcode>>
     ELSE /\ Uncaught(inflight.err, "call")
          /\ UNCHANGED inflight
  /\ UNCHANGED <<env, run, script, environ, loads, client, request, sent,
                 completion, response, shown, stdout, calls, past>>

\* a handler that prints the error before the process fails
CreateRaisesPrinted ==
  /\ pc = "awaiting"
  /\ inflight.kind = "error"
  /\ Uncaught(inflight.err, "call")
  /\ stdout' = Append(stdout, <<inflight.err, "\n">>)
  /\ UNCHANGED <<env, run, script, environ, loads, client, request, sent,
                 inflight, completion, response, shown, calls, past>>

\* create() raises: there is no try/except around it
CreateRaises ==
  /\ pc = "awaiting"
  /\ inflight.kind = "error"
  /\ Uncaught(inflight.err, "call")
  /\ UNCHANGED <<env, run, script, environ, loads, client, request, sent,
                 inflight, completion, response, shown, stdout, calls, past>>

\* completion.choices[0] raises IndexError on an empty list
CanSelect(s, payload) ==
  s = "chat" => Len(GetAttr(payload, "choices").l) > 0

\* a display step that takes the last choice instead of the first
SelectedLast(s, payload) ==
  IF s = "chat"
  THEN LET cs == GetAttr(payload, "choices").l
       IN GetAttr(GetAttr(cs[Len(cs)], "message"), "content")
  ELSE GetAttr(payload, "output")

\* the argument of the display step:
\*   completion.choices[0].message.content   /   response.output
Selected(s, payload) ==
  IF s = "chat"
  THEN GetAttr(GetAttr(GetAttr(payload, "choices").l[1], "message"), "content")
  ELSE GetAttr(payload, "output")

\* the text print writes for the selected value v
Rendered(s, v) ==
  IF s = "chat" THEN <<PyToStr(v), "\n">> ELSE Dumps(v, 0) \o <<"\n">>

\* print(...): the argument is evaluated first, then written; the script
\* ends after it
PrintResult ==
  /\ pc = "received"
  /\ LET payload == IF script = "chat" THEN completion ELSE response IN
     IF CanSelect(script, payload)
     THEN /\ shown' = Selected(script, payload)
          /\ stdout' = Append(stdout, Rendered(script, shown'))
          /\ pc' = "done"
          /\ exitcode' = 0
          /\ UNCHANGED <<exc, failedAt>>
     ELSE /\ Uncaught("IndexError", "print")
          /\ UNCHANGED <<shown, stdout>>
  /\ UNCHANGED <<env, run, script, environ, loads, client, request, sent,
                 inflight, completion, response, calls, past>>

Terminal == pc \in {"done", "failed"}

\* the next process: one of the scripts is run again, nothing of the
\* previous process survives but the environment it was started in
RunScript ==
  /\ Terminal
  /\ run < MaxRuns
  /\ UNCHANGED <<env, calls>>
  /\ run' = run + 1
  /\ script' \in Scripts
  /\ past' = Append(past, pc)
  /\ pc' = "start"
  /\ environ' = osenv
  /\ loads' = 0
  /\ client' = "none"
  /\ request' = NoRequest
  /\ sent' = 0
  /\ inflight' = NoReply
  /\ completion' = PyNone
  /\ response' = PyNone
  /\ exc' = ""
  /\ failedAt' = ""
  /\ exitcode' = -1
  /\ shown' = PyNone
  /\ stdout' = <<>>

Step ==
  \/ LoadDotenv
  \/ ConstructClient
  \/ Create
  \/ RemoteReplies
  \/ CreateReturns
  \/ CreateRaises
  \/ PrintResult

Next == Step \/ RunScript

Spec == Init /\ [][Next]_vars

\* a started process takes its next step, and the remote service
\* eventually answers a pending request
FairSpec == Spec /\ WF_vars(Step)

\* ======================================================== properties
\* the tool capabilities a script enables: web_search_options={} in the chat
\* script, tools=[{"type": "web_search"}] in the responses script
EnabledTools(s) == {"web_search"}

\* the capability tags a request carries
ToolTags(req) ==
  {req.tools[i].type : i \in DOMAIN req.tools}
    \cup (IF "web_search_options" \in req.kwargs THEN {"web_search"} ELSE {})

HasToolEntry(req) == req.kwargs \cap {"tools", "web_search_options"} # {}

\* the prompts a request carries, in order
PromptsOf(req) ==
  [i \in DOMAIN req.messages |-> req.messages[i].content]
    \o (IF "input" \in req.kwargs THEN <<req.input>> ELSE <<>>)

\* the value the current process bound the payload to
Bound == IF script = "chat" THEN completion ELSE response

\* the choices of the payload the remote service returned
ReplyChoices == GetAttr(inflight.val, "choices").l

FirstContent == GetAttr(GetAttr(ReplyChoices[1], "message"), "content")

\* the remote call of the current process has returned a payload
Returned == inflight.kind = "payload" /\ pc # "awaiting"

\* the remote call of the current process has raised
Raised == inflight.kind = "error" /\ pc # "awaiting"

\* C1 as stated: the value displayed is the payload the remote client
\* returned, unmodified, nothing selected out of it and nothing left out.
C1_DisplayedIsPayload == pc = "done" => shown = inflight.val

\* C1 amended: the value bound by the call is exactly the payload the remote
\* client returned; what is displayed is a projection of it: str() of the
\* content of the first choice's message in the chat script, the JSON
\* rendering of the output list in the responses script.
C1_BoundIsPayloadShownIsProjection ==
  /\ Returned => Bound = inflight.val
  /\ (pc = "done" /\ script = "chat") =>
       /\ shown = FirstContent
       /\ stdout = <<(<<PyToStr(FirstContent), "\n">>)>>
  /\ (pc = "done" /\ script = "resp") =>
       /\ shown = GetAttr(inflight.val, "output")
       /\ stdout = <<Dumps(GetAttr(inflight.val, "output"), 0) \o <<"\n">> >>

C1_Witness ==
  /\ pc = "done"
  /\ script = "chat"
  /\ Len(ReplyChoices) = 2
  /\ ReplyChoices[1] # ReplyChoices[2]

C3_ErrorPropagatesUnchanged ==
  /\ inflight.kind = "error" => pc \in {"awaiting", "failed"}
  /\ Raised =>
       /\ pc = "failed"
       /\ exc = inflight.err
       /\ failedAt = "call"
       /\ sent = 1
  /\ failedAt = "call" => Raised

C3_Witness ==
  /\ pc = "failed"
  /\ inflight = Error("AuthenticationError")
  /\ exc = "AuthenticationError"

\* C4: the text printed for a multi-item response is a structured rendering
\* from which the output items are read back in the same order with every
\* field of every item, nested ones included.
C4_RenderingKeepsItemsAndFields ==
  (pc = "done" /\ script = "resp") =>
    LET out == GetAttr(inflight.val, "output")
        back == Loads(stdout[1])
    IN /\ back.k = "list"
       /\ Len(back.l) = Len(out.l)
       /\ \A i \in DOMAIN out.l : back.l[i] = out.l[i]

C4_Witness ==
  /\ pc = "done"
  /\ script = "resp"
  /\ LET out == GetAttr(inflight.val, "output").l
     IN /\ Len(out) = 2
        /\ GetAttr(out[1], "type") = PyStr("web_search_call")
        /\ GetAttr(out[1], "status") = PyNone
        /\ GetAttr(out[2], "type") = PyStr("message")

\* C5: a run issues its own request only; the prompt, model identifier and
\* tool set of every request are those of the script that made it, whatever
\* ran before and however it ended, and a process starts from the same state
\* and displays only what its own call returned.
C5_Stateless ==
  /\ Len(calls) <= run
  /\ \A i \in DOMAIN calls :
       LET c == calls[i] IN
       /\ c.request.model = (IF c.script = "chat" THEN "gpt-4.1" ELSE "gpt-4.1-mini")
       /\ PromptsOf(c.request) = <<(IF c.script = "chat" THEN ChatPrompt ELSE RespPrompt)>>
       /\ ToolTags(c.request) = {"web_search"}
  /\ \A i, j \in DOMAIN calls :
       calls[i].script = calls[j].script => calls[i].request = calls[j].request
  /\ sent = 1 => calls[Len(calls)] = [script |-> script, request |-> request]
  /\ pc = "start" =>
       /\ environ = osenv /\ client = "none" /\ request = NoRequest
       /\ sent = 0 /\ inflight = NoReply /\ Bound = PyNone /\ stdout = <<>>
  /\ script = "chat" => response = PyNone
  /\ script = "resp" => completion = PyNone
  /\ Returned => Bound = inflight.val
  /\ pc = "done" => Len(stdout) = 1

C5_Witness ==
  /\ run = 2
  /\ past = <<"failed">>
  /\ Len(calls) = 2
  /\ calls[1].script = "chat"
  /\ calls[2].script = "resp"
  /\ pc = "done"

\* C6 as stated: the number of requests sent never exceeds one and is exactly
\* one once the run has reached the response-received or the failed state.
C6_ExactlyOneRequest ==
  /\ sent <= 1
  /\ pc \in {"received", "done", "failed"} => sent = 1

\* C6 amended: the number of requests sent never exceeds one, also after the
\* remote call has failed, and is exactly one once the remote call has
\* returned or raised; a run that fails before the call, at the construction
\* of the client without a credential, has sent none.
C6_AtMostOneRequest ==
  /\ sent <= 1
  /\ Len(calls) <= run
  /\ (Returned \/ Raised) => sent = 1
  /\ pc \in {"received", "done"} => sent = 1
  /\ pc = "failed" => (sent = 1 <=> failedAt \in {"call", "print"})
  /\ (pc = "failed" /\ failedAt = "client") => sent = 0

C6_Witness ==
  /\ pc = "failed"
  /\ failedAt = "call"
  /\ exc = "RateLimitError"
  /\ sent = 1

\* C7 as stated: a run ends with exit code 0 if and only if the remote call
\* returned a response.
C7_ExitZeroIffResponse ==
  Terminal => (exitcode = 0 <=> inflight.kind = "payload")

\* C7 amended: a run ends with exit code 0 if and only if the remote call
\* returned a response and the display step did not raise (in the chat
\* script: the response has at least one choice); it ends with a non-zero
\* exit code whenever a step raised; and if the remote service eventually
\* responds or fails, every run reaches one of the two outcomes.
C7_ExitCodeAndTermination ==
  /\ [](Terminal =>
          (exitcode = 0 <=>
             /\ inflight.kind = "payload"
             /\ script = "chat" => Len(ReplyChoices) > 0))
  /\ [](exc # "" => Terminal /\ exitcode = 1)
  /\ [](~Terminal => exitcode = -1)
  /\ [](~Terminal => <>Terminal)

C7_Witness ==
  /\ pc = "failed"
  /\ failedAt = "print"
  /\ inflight.kind = "payload"
  /\ exitcode = 1

\* C8: no local validation gates the request: whether or not the remote
\* service recognises the model identifier the request is sent, and a
\* rejection of the model identifier is an error the remote call raised.
C8_NoLocalValidation ==
  /\ pc = "ready" => ENABLED Create
  /\ (pc = "failed" /\ sent = 0) =>
       /\ failedAt = "client"
       /\ exc = "OpenAIError"
       /\ environ = "unset"
  /\ exc = "NotFoundError" =>
       /\ sent = 1
       /\ failedAt = "call"
       /\ inflight = Error("NotFoundError")
       /\ request.model \notin recognised

C8_Witness ==
  /\ pc = "failed"
  /\ exc = "NotFoundError"
  /\ sent = 1
  /\ request.model \notin recognised

\* C9: the steps of a run happen in a fixed order: the credential is loaded
\* once and before the client is constructed, the client is constructed
\* before the request is sent, and standard output is written only after a
\* response has been received.
C9_FixedOrder ==
  /\ loads <= 1
  /\ pc # "start" => loads = 1
  /\ client # "none" => loads = 1
  /\ sent > 0 => loads = 1 /\ client # "none"
  /\ stdout # <<>> => inflight.kind = "payload" /\ Bound = inflight.val /\ sent = 1

C9_Witness ==
  /\ pc = "done"
  /\ loads = 1
  /\ client = "valid"
  /\ sent = 1
  /\ stdout # <<>>

\* C10: a failed run writes nothing to standard output: standard output is
\* empty in every failed terminal state and holds exactly one rendered
\* payload in every successful terminal state.
C10_NoOutputOnFailure ==
  /\ pc = "failed" => stdout = <<>>
  /\ pc = "done" => Len(stdout) = 1 /\ Len(stdout[1]) >= 2
  /\ pc \notin {"done", "failed"} => stdout = <<>>

C10_Witness ==
  /\ pc = "failed"
  /\ failedAt = "call"
  /\ exc = "APIConnectionError"
  /\ stdout = <<>>
====
